---- MODULE Spec2Model ----
(***************************************************************************)
(* State-machine model of the_snake.py: one Snake, one Apple and the main  *)
(* loop  handle_keys -> update_direction -> move -> eat check ->           *)
(* relocation loop -> draw.  Positions are pixel pairs <<x, y>> as in the  *)
(* source; the board is scaled down through HalfCols / HalfRows.           *)
(***************************************************************************)
EXTENDS Integers, Sequences, FiniteSets, TLC

\* ---------------------------------------------------------------- bounds
\* The board is 2*HalfCols cells wide and 2*HalfRows cells high, so that the
\* board centre SCREEN_WIDTH // 2 is grid aligned as it is for 640 x 480.
\* Snake.length needs no cap: it grows only when the apple is eaten, and the
\* apple is never placed once the body covers the board.
HalfCols == 2
HalfRows == 1
\* Longest batch of events one pygame.event.get() call returns.
MaxEvents == 2
\* Number of ticks the end-to-end trace on the full-size screen runs.
TraceTicks == 4

\* ------------------------------------------------------------- constants
GRID_SIZE == 20
\* The screen of the program, used by the end-to-end trace, and the
\* scaled-down screen every other specification runs on.
FULL_SCREEN_WIDTH == 640
FULL_SCREEN_HEIGHT == 480
FullScreen == <<FULL_SCREEN_WIDTH, FULL_SCREEN_HEIGHT>>
ScaledScreen == <<2 * HalfCols * GRID_SIZE, 2 * HalfRows * GRID_SIZE>>

VARIABLES
    screen,          \* <<SCREEN_WIDTH, SCREEN_HEIGHT>> of this run, never changed
    ticks            \* iterations of the loop of main() completed (counted by
                     \* the end-to-end trace only)

SCREEN_WIDTH == screen[1]
SCREEN_HEIGHT == screen[2]
GRID_WIDTH == SCREEN_WIDTH \div GRID_SIZE
GRID_HEIGHT == SCREEN_HEIGHT \div GRID_SIZE

UP == <<0, -1>>
DOWN == <<0, 1>>
LEFT == <<-1, 0>>
RIGHT == <<1, 0>>
Directions == {UP, DOWN, LEFT, RIGHT}

\* Python's None; like None it is falsy, every direction and position is truthy.
None == <<>>
Truthy(v) == v # None

\* GameObject.__init__ default position, also used by Snake.reset.
Center == <<SCREEN_WIDTH \div 2, SCREEN_HEIGHT \div 2>>

\* Values Apple.randomize_position can produce.
RandomPositions ==
    { <<c * GRID_SIZE, r * GRID_SIZE>> : c \in 0..(GRID_WIDTH - 1), r \in 0..(GRID_HEIGHT - 1) }

\* Events a poll can yield: QUIT, KEYDOWN of the four arrow keys, KEYDOWN of
\* any other key.
EventKinds == {"QUIT", "K_UP", "K_DOWN", "K_LEFT", "K_RIGHT", "K_OTHER"}

RECURSIVE SeqsUpTo(_, _)
SeqsUpTo(S, n) ==
    IF n = 0 THEN { <<>> }
    ELSE LET shorter == SeqsUpTo(S, n - 1)
         IN  shorter \cup { Append(s, e) : s \in { t \in shorter : Len(t) = n - 1 }, e \in S }

EventBatches == SeqsUpTo(EventKinds, MaxEvents)

VARIABLES
    positions,       \* Snake.positions, head first
    direction,       \* Snake.direction
    next_direction,  \* Snake.next_direction
    length,          \* Snake.length
    last,            \* Snake.last
    apple,           \* Apple.position
    pc,              \* position of main() in its loop body
    events,          \* the batch handle_keys drained in this tick
    mv,              \* what move() of this tick met: hit = index in the old
                     \* positions of the cell the new head was found at (0: no
                     \* collision), n = len(positions) and len = length before it
    direction0,      \* Snake.direction when this tick began
    apple0           \* Apple.position when this tick began

vars == <<screen, ticks, positions, direction, next_direction, length, last, apple,
          pc, events, mv, direction0, apple0>>

NoMove == [hit |-> 0, n |-> 0, len |-> 0]
Collided == mv.hit # 0

\* --------------------------------------------------------------- helpers
get_head_position(ps) == ps[1]

Rest(ps) == SubSeq(ps, 2, Len(ps))

Elems(ps) == { ps[i] : i \in 1..Len(ps) }

\* Wrap without the modulo: the head runs off the screen.
Wrap_NoModulo(head, d, sw, sh) ==
    << head[1] + d[1] * GRID_SIZE, head[2] + d[2] * GRID_SIZE >>

\* Wrap with dx and dy mixed up.
Wrap_SwapAxes(head, d, sw, sh) ==
    << (head[1] + d[2] * GRID_SIZE) % sw, (head[2] + d[1] * GRID_SIZE) % sh >>

\* new_position of Snake.move for a screen of sw x sh pixels.
Wrap(head, d, sw, sh) ==
    << (head[1] + d[1] * GRID_SIZE) % sw, (head[2] + d[2] * GRID_SIZE) % sh >>

NewPosition(head, d) == Wrap(head, d, SCREEN_WIDTH, SCREEN_HEIGHT)

\* The self-collision test with the tail cell left out as well as the head.
SelfCollision_SkipTail(ps, new_position) ==
    new_position \in Elems(SubSeq(ps, 2, Len(ps) - 1))

\* The self-collision test of Snake.move.
SelfCollision(ps, new_position) == new_position \in Elems(Rest(ps))

\* Index of the first cell of positions[1:] equal to new_position.
HitIndex(ps, new_position) ==
    CHOOSE i \in 2..Len(ps) :
        /\ ps[i] = new_position
        /\ \A j \in 2..(i - 1) : ps[j] # new_position

\* Advance that never pops the tail.
Advance_NoPop(ps, new_position, len) == <<new_position>> \o ps

\* Advance comparing with 1 instead of length: the body never grows.
Advance_CapOne(ps, new_position, len) ==
    LET grown == <<new_position>> \o ps
    IN  IF Len(grown) > 1 THEN SubSeq(grown, 1, Len(grown) - 1) ELSE grown

\* positions after the insert and the conditional pop of Snake.move.
Advance(ps, new_position, len) ==
    LET grown == <<new_position>> \o ps
    IN  IF Len(grown) > len THEN SubSeq(grown, 1, Len(grown) - 1) ELSE grown

\* The relocation test looking at the head only.
InBody_HeadOnly(a, ps) == a = ps[1]

\* The condition of the relocation loop of main.
InBody(a, ps) == a \in Elems(ps)

\* KeyDown without the opposite-direction filter.
KeyDown_NoFilter(key, nd, dir) ==
    IF key = "K_UP" THEN UP
    ELSE IF key = "K_DOWN" THEN DOWN
    ELSE IF key = "K_LEFT" THEN LEFT
    ELSE IF key = "K_RIGHT" THEN RIGHT
    ELSE nd

\* KeyDown filtering against the pending direction when there is one.
KeyDown_FilterPending(key, nd, dir) ==
    LET cur == IF Truthy(nd) THEN nd ELSE dir
    IN  IF key = "K_UP" /\ cur # DOWN THEN UP
        ELSE IF key = "K_DOWN" /\ cur # UP THEN DOWN
        ELSE IF key = "K_LEFT" /\ cur # RIGHT THEN LEFT
        ELSE IF key = "K_RIGHT" /\ cur # LEFT THEN RIGHT
        ELSE nd

\* One iteration of the event loop of handle_keys on a KEYDOWN event:
\* the new value of snake.next_direction.
KeyDown(key, nd, dir) ==
    IF key = "K_UP" /\ dir # DOWN THEN UP
    ELSE IF key = "K_DOWN" /\ dir # UP THEN DOWN
    ELSE IF key = "K_LEFT" /\ dir # RIGHT THEN LEFT
    ELSE IF key = "K_RIGHT" /\ dir # LEFT THEN RIGHT
    ELSE nd

\* handle_keys that notes QUIT and exits only after the whole batch.
RECURSIVE handle_keys_QuitLast(_, _, _, _)
handle_keys_QuitLast(evs, i, nd, dir) ==
    IF i > Len(evs)
      THEN [nd |-> nd, quit |-> \E j \in 1..Len(evs) : evs[j] = "QUIT"]
      ELSE handle_keys_QuitLast(evs, i + 1, KeyDown(evs[i], nd, dir), dir)

\* The for loop of handle_keys from event i on: next_direction when the loop
\* ends and whether it ended in exit().
RECURSIVE handle_keys(_, _, _, _)
handle_keys(evs, i, nd, dir) ==
    IF i > Len(evs) THEN [nd |-> nd, quit |-> FALSE]
    ELSE IF evs[i] = "QUIT" THEN [nd |-> nd, quit |-> TRUE]
    ELSE handle_keys(evs, i + 1, KeyDown(evs[i], nd, dir), dir)

\* ------------------------------------------------------------------ Init
\* Snake() and Apple() on a screen of the given size.
InitOn(scr) ==
    /\ screen = scr
    /\ ticks = 0
    /\ positions = <<Center>>
    /\ direction = RIGHT
    /\ next_direction = None
    /\ length = 1
    /\ last = None
    /\ apple \in RandomPositions
    /\ pc = "keys"
    /\ events = <<>>
    /\ mv = NoMove
    /\ direction0 = RIGHT
    /\ apple0 = apple

Init == InitOn(ScaledScreen)

\* --------------------------------------------------------------- actions
\* handle_keys writing an accepted key straight into snake.direction.
HandleKeys_SetsDirection ==
    /\ pc = "keys"
    /\ \E evs \in EventBatches :
         LET r == handle_keys(evs, 1, next_direction, direction)
         IN  /\ events' = evs
             /\ next_direction' = r.nd
             /\ direction' = IF Truthy(r.nd) THEN r.nd ELSE direction
             /\ pc' = IF r.quit THEN "exited" ELSE "update"
    /\ UNCHANGED <<positions, length, last, apple, mv, direction0, apple0>>
    /\ UNCHANGED <<screen, ticks>>

\* handle_keys(snake): drain one batch of events.
HandleKeys ==
    /\ pc = "keys"
    /\ \E evs \in EventBatches :
         LET r == handle_keys(evs, 1, next_direction, direction)
         IN  /\ events' = evs
             /\ next_direction' = r.nd
             /\ pc' = IF r.quit THEN "exited" ELSE "update"
    /\ UNCHANGED <<positions, direction, length, last, apple, mv, direction0, apple0>>
    /\ UNCHANGED <<screen, ticks>>

\* update_direction() that leaves next_direction set.
UpdateDirection_NoClear ==
    /\ pc = "update"
    /\ IF Truthy(next_direction)
         THEN direction' = next_direction /\ next_direction' = next_direction
         ELSE UNCHANGED <<direction, next_direction>>
    /\ events' = <<>>
    /\ pc' = "move"
    /\ UNCHANGED <<positions, length, last, apple, mv, direction0, apple0>>
    /\ UNCHANGED <<screen, ticks>>

\* snake.update_direction()
UpdateDirection ==
    /\ pc = "update"
    /\ IF Truthy(next_direction)
         THEN direction' = next_direction /\ next_direction' = None
         ELSE UNCHANGED <<direction, next_direction>>
    /\ events' = <<>>
    /\ pc' = "move"
    /\ UNCHANGED <<positions, length, last, apple, mv, direction0, apple0>>
    /\ UNCHANGED <<screen, ticks>>

\* reset() that forgets to set length back to 1.
Reset_KeepsLength ==
    /\ length' = length
    /\ positions' = <<Center>>
    /\ direction' \in Directions
    /\ next_direction' = None

\* snake.reset()
Reset ==
    /\ length' = 1
    /\ positions' = <<Center>>
    /\ direction' \in Directions
    /\ next_direction' = None

\* snake.move()
Move ==
    /\ pc = "move"
    /\ LET new_position == NewPosition(get_head_position(positions), direction)
       IN  IF SelfCollision(positions, new_position)
             THEN /\ Reset
                  /\ mv' = [hit |-> HitIndex(positions, new_position),
                            n |-> Len(positions), len |-> length]
                  /\ UNCHANGED last
             ELSE /\ last' = IF Len(positions) > 0 THEN positions[Len(positions)] ELSE None
                  /\ positions' = Advance(positions, new_position, length)
                  /\ mv' = [hit |-> 0, n |-> Len(positions), len |-> length]
                  /\ UNCHANGED <<direction, next_direction, length>>
    /\ pc' = "eat"
    /\ UNCHANGED <<apple, events, direction0, apple0>>
    /\ UNCHANGED <<screen, ticks>>

\* The eat check skipped on a tick whose move() reset the snake.
Eat_SkipAfterReset ==
    /\ pc = "eat"
    /\ IF get_head_position(positions) = apple /\ mv.hit = 0
         THEN /\ length' = length + 1
              /\ apple' \in RandomPositions
              /\ pc' = "place"
         ELSE /\ pc' = "draw"
              /\ UNCHANGED <<length, apple>>
    /\ UNCHANGED <<positions, direction, next_direction, last, events, mv,
                   direction0, apple0>>
    /\ UNCHANGED <<screen, ticks>>

\* main(): if snake.get_head_position() == apple.position: length += 1 and
\* the first apple.randomize_position().
Eat ==
    /\ pc = "eat"
    /\ IF get_head_position(positions) = apple
         THEN /\ length' = length + 1
              /\ apple' \in RandomPositions
              /\ pc' = "place"
         ELSE /\ pc' = "draw"
              /\ UNCHANGED <<length, apple>>
    /\ UNCHANGED <<positions, direction, next_direction, last, events, mv,
                   direction0, apple0>>
    /\ UNCHANGED <<screen, ticks>>

\* The relocation loop written as an if: one more sample, then on to draw.
Place_Once ==
    /\ pc = "place"
    /\ IF InBody(apple, positions)
         THEN apple' \in RandomPositions
         ELSE apple' = apple
    /\ pc' = "draw"
    /\ UNCHANGED <<positions, direction, next_direction, length, last, events,
                   mv, direction0, apple0>>
    /\ UNCHANGED <<screen, ticks>>

\* The relocation loop spinning without drawing a new sample.
Place_NoResample ==
    /\ pc = "place"
    /\ IF InBody(apple, positions)
         THEN apple' = apple /\ pc' = "place"
         ELSE apple' = apple /\ pc' = "draw"
    /\ UNCHANGED <<positions, direction, next_direction, length, last, events,
                   mv, direction0, apple0>>
    /\ UNCHANGED <<screen, ticks>>

\* main(): while apple.position in snake.positions: apple.randomize_position()
Place ==
    /\ pc = "place"
    /\ IF InBody(apple, positions)
         THEN apple' \in RandomPositions /\ pc' = "place"
         ELSE apple' = apple /\ pc' = "draw"
    /\ UNCHANGED <<positions, direction, next_direction, length, last, events,
                   mv, direction0, apple0>>
    /\ UNCHANGED <<screen, ticks>>

\* main(): fill, draw, display.update, clock.tick; the next iteration begins.
Draw ==
    /\ pc = "draw"
    /\ pc' = "keys"
    /\ mv' = NoMove
    /\ direction0' = direction
    /\ apple0' = apple
    /\ UNCHANGED <<positions, direction, next_direction, length, last, apple, events>>
    /\ UNCHANGED <<screen, ticks>>

Next ==
    \/ HandleKeys
    \/ UpdateDirection
    \/ Move
    \/ Eat
    \/ Place
    \/ Draw

Spec == Init /\ [][Next]_vars

\* The end-to-end trace: the full-size screen, no input (every poll yields
\* no event), TraceTicks ticks.
TraceInit == InitOn(FullScreen)

TraceKeys == HandleKeys /\ events' = <<>>

TraceDraw ==
    /\ pc = "draw"
    /\ ticks < TraceTicks
    /\ pc' = "keys"
    /\ mv' = NoMove
    /\ direction0' = direction
    /\ apple0' = apple
    /\ ticks' = ticks + 1
    /\ UNCHANGED <<screen, positions, direction, next_direction, length, last, apple, events>>

TraceNext ==
    \/ TraceKeys
    \/ UpdateDirection
    \/ Move
    \/ Eat
    \/ Place
    \/ TraceDraw

TraceSpec == TraceInit /\ [][TraceNext]_vars

\* A step of the relocation loop that ends with the apple on a free cell:
\* a sample that lands off the body, or the exit of the loop.
PlaceOnFreeCell == Place /\ apple' \notin Elems(positions)

\* The loop of main keeps running, and random.randint is fair: a loop that
\* keeps sampling while a free cell exists draws a free cell at some point.
FairSpec ==
    /\ Spec
    /\ WF_vars(Eat)
    /\ WF_vars(Place)
    /\ WF_vars(PlaceOnFreeCell)

\* ------------------------------------------------- vocabulary of the claims
\* Column and row of a pixel position, and whether it is a cell of the board.
Col(p) == p[1] \div GRID_SIZE
Row(p) == p[2] \div GRID_SIZE
OnBoard(p) ==
    /\ p[1] % GRID_SIZE = 0
    /\ p[2] % GRID_SIZE = 0
    /\ Col(p) \in 0..(GRID_WIDTH - 1)
    /\ Row(p) \in 0..(GRID_HEIGHT - 1)

CenterCell == <<(GRID_WIDTH \div 2) * GRID_SIZE, (GRID_HEIGHT \div 2) * GRID_SIZE>>

Opposite(d) == <<0 - d[1], 0 - d[2]>>

\* The direction an event asks for; None for QUIT and for other keys.
KeyDirection(e) ==
    CASE e = "K_UP" -> UP
      [] e = "K_DOWN" -> DOWN
      [] e = "K_LEFT" -> LEFT
      [] e = "K_RIGHT" -> RIGHT
      [] OTHER -> None

\* Indices of the events of evs that ask for a direction other than the
\* opposite of dir.
Acceptable(evs, dir) ==
    { i \in 1..Len(evs) : KeyDirection(evs[i]) # None /\ KeyDirection(evs[i]) # Opposite(dir) }

Max(S) == CHOOSE m \in S : \A x \in S : x <= m

\* evs without its i-th event.
Without(evs, i) == SubSeq(evs, 1, i - 1) \o SubSeq(evs, i + 1, Len(evs))

\* The cell move() looks at: the head moved one cell in the committed direction.
Ahead == NewPosition(positions[1], direction)

\* ------------------------------------------------------------------ C1
\* C1: at every tick boundary length >= 1 and len(positions) is length - 1 or
\* length; right after a move() that did not self-collide len(positions)
\* equals length.
C1_LengthInvariant ==
    /\ pc = "keys" => length >= 1 /\ Len(positions) \in {length - 1, length}
    /\ pc = "eat" /\ ~Collided => Len(positions) = length

\* A move on which growth was pending: the body went from 2 to 3 cells.
C1_Witness ==
    pc = "eat" /\ ~Collided /\ mv.n = 2 /\ Len(positions) = 3 /\ length = 3

\* ------------------------------------------------------------------ C2
\* C2: a non-colliding move() puts the new head one cell further in the
\* committed direction, column and row wrapped modulo the board width and
\* height independently (Right from the last column lands on column 0 of the
\* same row, and so on for the four edges); every body cell stays on the board.
C2_Step ==
    pc = "move" /\ mv'.hit = 0 =>
        LET h == positions[1]
            n == positions'[1]
            d == direction
        IN  /\ OnBoard(n)
            /\ Col(n) = (Col(h) + d[1]) % GRID_WIDTH
            /\ Row(n) = (Row(h) + d[2]) % GRID_HEIGHT
            /\ d = RIGHT /\ Col(h) = GRID_WIDTH - 1 => Col(n) = 0 /\ Row(n) = Row(h)
            /\ d = LEFT /\ Col(h) = 0 => Col(n) = GRID_WIDTH - 1 /\ Row(n) = Row(h)
            /\ d = UP /\ Row(h) = 0 => Row(n) = GRID_HEIGHT - 1 /\ Col(n) = Col(h)
            /\ d = DOWN /\ Row(h) = GRID_HEIGHT - 1 => Row(n) = 0 /\ Col(n) = Col(h)

C2_ToroidalWrap ==
    /\ [](\A i \in 1..Len(positions) : OnBoard(positions[i]))
    /\ [][C2_Step]_vars

\* The head has just left the last column to the right and sits on column 0.
C2_Witness ==
    /\ pc = "eat" /\ ~Collided /\ direction = RIGHT
    /\ Len(positions) >= 2
    /\ Col(positions[1]) = 0
    /\ Col(positions[2]) = GRID_WIDTH - 1

\* ------------------------------------------------------------------ C3
\* C3: when the cell move() computes is a body cell other than the head,
\* right after move() length is 1, positions is the single centre cell (no
\* head inserted, no tail removed, so last is untouched), next_direction is
\* unset and direction is one of the four directions.
C3_Step ==
    pc = "move" /\ (\E i \in 2..Len(positions) : positions[i] = Ahead) =>
        /\ length' = 1
        /\ positions' = <<CenterCell>>
        /\ next_direction' = None
        /\ direction' \in Directions
        /\ last' = last

C3_ResetOnCollision == [][C3_Step]_vars

\* A body of at least 4 cells ran into itself and the new direction is the
\* opposite of the one the tick began with.
C3_Witness ==
    /\ pc = "eat" /\ Collided /\ mv.n >= 4
    /\ positions = <<CenterCell>> /\ length = 1
    /\ direction = Opposite(direction0)

\* ------------------------------------------------------------------ C4
\* C4 as claimed: when len(positions) equals length and the cell ahead is the
\* tail cell (and no other body cell), the snake is not reset and the move
\* completes: the head is inserted and the tail dropped.
C4_TailCellIsFree ==
    [][ pc = "move" /\ Len(positions) >= 2 /\ Len(positions) = length
          /\ Ahead = positions[Len(positions)]
          /\ (\A j \in 2..(Len(positions) - 1) : positions[j] # Ahead)
        => /\ positions' = <<Ahead>> \o SubSeq(positions, 1, Len(positions) - 1)
           /\ length' = length ]_vars

\* C4 amended: move() treats the cell ahead as a self-collision whenever it
\* is any body cell other than the head, the tail cell included: when
\* len(positions) equals length and the cell ahead is the tail cell, the
\* snake is reset; when the cell ahead is no body cell other than the head,
\* the move completes.
C4_Step ==
    pc = "move" =>
        /\ Len(positions) >= 2 /\ Len(positions) = length /\ Ahead = positions[Len(positions)]
             => positions' = <<CenterCell>> /\ length' = 1 /\ last' = last
        /\ (\A j \in 2..Len(positions) : positions[j] # Ahead)
             => positions'[1] = Ahead /\ length' = length

C4_TailCellCollides == [][C4_Step]_vars

\* A full-length body of at least 4 cells whose head ran into its own tail.
C4_Witness ==
    /\ pc = "eat" /\ Collided
    /\ mv.n >= 4 /\ mv.n = mv.len /\ mv.hit = mv.n
    /\ positions = <<CenterCell>>

\* ------------------------------------------------------------------ C5
\* C5: a key for the opposite of the committed direction never changes
\* next_direction (the batch without it gives the same result); when the
\* batch holds no other direction key next_direction stays unset and
\* update_direction leaves direction alone; and on a tick whose move() does
\* not reset the snake, direction is never the opposite of what it was when
\* the tick began.
C5_State ==
    /\ pc \in {"update", "exited"} =>
         /\ next_direction # Opposite(direction)
         /\ \A i \in 1..Len(events) :
              KeyDirection(events[i]) = Opposite(direction) =>
                handle_keys(Without(events, i), 1, None, direction).nd = next_direction
    /\ pc = "update"
         /\ (\A i \in 1..Len(events) :
               KeyDirection(events[i]) \in {None, Opposite(direction)})
         => next_direction = None
    /\ pc = "move" => direction # Opposite(direction0)
    /\ pc \in {"eat", "place", "draw"} /\ ~Collided => direction # Opposite(direction0)

C5_NoReversal ==
    /\ []C5_State
    /\ [][pc = "update" /\ next_direction = None => direction' = direction]_vars

\* Two keys for the opposite direction were drained and nothing is pending.
C5_Witness ==
    /\ pc = "update" /\ Len(events) = 2
    /\ \A i \in 1..Len(events) : KeyDirection(events[i]) = Opposite(direction)
    /\ next_direction = None

\* ------------------------------------------------------------------ C6
\* C6: after a batch without QUIT, next_direction is the direction of the
\* last key of the batch that is not the opposite of the committed
\* direction, and unset when there is none; a key opposite to an earlier
\* pending value of the same batch is accepted and overwrites it.
C6_LastAcceptedWins ==
    pc = "update" =>
        next_direction =
            IF Acceptable(events, direction) = {} THEN None
            ELSE KeyDirection(events[Max(Acceptable(events, direction))])

\* The second key is the opposite of the first and has overwritten it.
C6_Witness ==
    /\ pc = "update" /\ Len(events) = 2
    /\ Acceptable(events, direction) = {1, 2}
    /\ KeyDirection(events[2]) = Opposite(KeyDirection(events[1]))
    /\ next_direction = KeyDirection(events[2])

\* ------------------------------------------------------------------ C7
\* C7: when the head is on the apple after move(), the eat step raises
\* length by exactly 1 and leaves positions alone, the relocation loop
\* changes neither, and the apple it ends with is not a body cell.
C7_Step ==
    /\ pc = "eat" /\ positions[1] = apple =>
         length' = length + 1 /\ positions' = positions /\ pc' = "place"
    /\ pc = "place" =>
         /\ length' = length /\ positions' = positions
         /\ pc' \in {"place", "draw"}
         /\ pc' = "draw" => apple' \notin Elems(positions')

C7_FeedOnce == [][C7_Step]_vars

\* The apple was eaten by a body of at least 2 cells and has been relocated.
C7_Witness ==
    /\ pc = "draw" /\ apple # apple0 /\ ~Collided
    /\ Len(positions) >= 2 /\ length = Len(positions) + 1
    /\ positions[1] = apple0

\* ------------------------------------------------------------------ C8
\* C8: in every state handed to the renderer the apple is a board cell that
\* is not a cell of the body.
C8_FoodOffBody ==
    pc = "draw" => OnBoard(apple) /\ apple \notin Elems(positions)

\* A tick that both reset the snake and relocated the apple.
C8_Witness ==
    pc = "draw" /\ Collided /\ apple # apple0 /\ apple \notin Elems(positions)

\* ------------------------------------------------------------------ C9
\* C9: before the first tick the apple is not on the cell of the snake's
\* one-cell body (last is unset exactly until the first move).
C9_InitialFoodFree ==
    pc = "keys" /\ last = None => apple \notin Elems(positions)

\* ----------------------------------------------------------------- C10
\* C10 as claimed: on a tick whose move() reset the snake, at the end of the
\* tick length is 1 and the apple is where it was before the tick.
C10_ResetSuppressesFeeding ==
    pc = "draw" /\ Collided => length = 1 /\ apple = apple0

\* C10 amended: on a tick whose move() reset the snake, feeding is suppressed
\* exactly when the apple is not on the centre cell: then at the end of the
\* tick length is 1 and the apple has not moved; when the apple is on the
\* centre cell the reset head is on it, length ends at 2 and the apple is
\* relocated to a cell off the body.
C10_ResetFeedsAtCentre ==
    pc = "draw" /\ Collided =>
        IF apple0 # CenterCell
          THEN length = 1 /\ apple = apple0
          ELSE length = 2 /\ apple # apple0 /\ apple \notin Elems(positions)

\* The snake was reset onto the apple and ate it in the same tick.
C10_Witness ==
    pc = "draw" /\ Collided /\ apple0 = CenterCell /\ length = 2

\* ----------------------------------------------------------------- C11
\* C11: growth is deferred by one tick.  A tick that fed the snake ends with
\* as many body cells as its move() left (one less than length); on the next
\* tick a move() that does not self-collide adds exactly one cell and keeps
\* the tail cell.
C11_State ==
    pc = "draw" /\ apple # apple0 =>
        /\ Len(positions) = (IF Collided THEN 1 ELSE mv.n + (IF mv.n < mv.len THEN 1 ELSE 0))
        /\ Len(positions) = length - 1

C11_Step ==
    /\ pc \in {"eat", "place", "draw"} => Len(positions') = Len(positions)
    /\ pc = "move" /\ Len(positions) = length - 1
         /\ (\A j \in 2..Len(positions) : positions[j] # Ahead)
         => /\ Len(positions') = Len(positions) + 1
            /\ positions'[Len(positions')] = positions[Len(positions)]
            /\ Rest(positions') = positions

C11_DeferredGrowth == []C11_State /\ [][C11_Step]_vars

\* The move after a feeding: the body went from 1 to 2 cells, tail kept.
C11_Witness ==
    /\ pc = "eat" /\ ~Collided /\ mv.n = 1 /\ mv.len = 2
    /\ Len(positions) = 2 /\ positions[2] = last

\* ----------------------------------------------------------------- C12
\* C12: the move of a tick uses the last key accepted in that tick's batch
\* if there is one, otherwise the direction committed before the tick;
\* next_direction is unset when move() runs and at the end of every tick,
\* so a tick without accepted input keeps direction unless move() resets.
C12_State ==
    pc \in {"keys", "move", "eat", "place", "draw"} => next_direction = None

C12_Step ==
    /\ pc = "update" =>
         /\ direction' =
              IF Acceptable(events, direction) = {} THEN direction0
              ELSE KeyDirection(events[Max(Acceptable(events, direction))])
         /\ direction = direction0
    /\ pc = "move" /\ (\A j \in 2..Len(positions) : positions[j] # Ahead) =>
         /\ positions'[1] = Wrap(positions[1], direction, SCREEN_WIDTH, SCREEN_HEIGHT)
         /\ direction' = direction
    /\ pc \in {"eat", "place"} => direction' = direction
    /\ pc = "draw" => direction' = direction /\ direction0' = direction

C12_AppliedOnce == []C12_State /\ [][C12_Step]_vars

\* A key accepted in this tick turned the snake and nothing is pending.
C12_Witness ==
    /\ pc = "eat" /\ ~Collided
    /\ direction # direction0 /\ next_direction = None
    /\ positions[1] = Wrap(last, direction, SCREEN_WIDTH, SCREEN_HEIGHT)

\* ----------------------------------------------------------------- C14
\* C14: a QUIT in the batch ends the process inside handle_keys: the events
\* after it are not translated (next_direction is what the keys before it
\* give), a batch with a QUIT never reaches update_direction, the exit
\* changes nothing but next_direction, and nothing changes ever after.
FirstQuit(evs) == CHOOSE q \in 1..Len(evs) : evs[q] = "QUIT" /\ \A j \in 1..(q - 1) : evs[j] # "QUIT"

BeforeQuit(evs) == SubSeq(evs, 1, FirstQuit(evs) - 1)

C14_State ==
    /\ pc = "update" => \A i \in 1..Len(events) : events[i] # "QUIT"
    /\ pc = "exited" =>
         /\ \E i \in 1..Len(events) : events[i] = "QUIT"
         /\ next_direction =
              IF Acceptable(BeforeQuit(events), direction) = {} THEN None
              ELSE KeyDirection(events[Max(Acceptable(BeforeQuit(events), direction))])

C14_Step ==
    /\ pc # "exited"
    /\ pc' = "exited" =>
         pc = "keys" /\ UNCHANGED <<positions, direction, length, last, apple>>

C14_QuitTerminates == []C14_State /\ [][C14_Step]_vars

\* QUIT came first; the arrow key behind it would have been accepted but
\* was not translated.
C14_Witness ==
    /\ pc = "exited" /\ Len(events) = 2 /\ events[1] = "QUIT"
    /\ KeyDirection(events[2]) \in Directions \ {Opposite(direction), direction}
    /\ next_direction = None

\* ----------------------------------------------------------------- C16
\* C16: once the body covers the whole board when the eat step starts, the
\* head is on the apple, the relocation loop is entered and never left:
\* every later step is another sample, the tick never reaches draw.
Full == Elems(positions) = RandomPositions

C16_State == pc = "eat" /\ Full => positions[1] = apple

C16_Step ==
    pc \in {"eat", "place"} /\ Full =>
        /\ pc' = "place"
        /\ UNCHANGED <<positions, direction, next_direction, last, events>>
        /\ length' = IF pc = "eat" THEN length + 1 ELSE length

C16_RelocationNeverEnds == []C16_State /\ [][C16_Step]_vars

\* The head ate the apple on the last free cell while growth was pending.
C16_Witness ==
    /\ pc = "place" /\ Full
    /\ mv.n = GRID_WIDTH * GRID_HEIGHT - 1 /\ mv.len = GRID_WIDTH * GRID_HEIGHT
    /\ length = GRID_WIDTH * GRID_HEIGHT + 1
    /\ positions[1] = apple0

\* ----------------------------------------------------------------- C17
\* C17: the cells of positions are pairwise distinct in every reachable
\* state (the board is at least 2 cells wide and 2 cells high).
C17_DistinctCells ==
    /\ GRID_WIDTH >= 2 /\ GRID_HEIGHT >= 2
    /\ \A i, j \in 1..Len(positions) : i # j => positions[i] # positions[j]

\* A move that kept the tail because growth was pending, on a body that
\* had already 4 cells.
C17_Witness ==
    /\ pc = "eat" /\ ~Collided /\ mv.n >= 4 /\ mv.n < mv.len
    /\ Cardinality(Elems(positions)) = mv.n + 1

\* ----------------------------------------------------------------- C18
\* C18: at every draw the cell in last, which draw paints with the
\* background colour after the body, is not a cell of positions.
C18_EraseCellOffBody ==
    pc = "draw" /\ Truthy(last) => last \notin Elems(positions)

\* ----------------------------------------------------------------- C19
\* C19: handle_keys changes nothing but next_direction; update_direction
\* nothing but direction and next_direction; a move() that does not
\* self-collide leaves direction, next_direction, length and the apple
\* alone; a tick whose head does not end on the apple leaves length (unless
\* reset) and the apple alone.
C19_State ==
    pc = "draw" /\ positions[1] # apple0 =>
        /\ apple = apple0
        /\ length = (IF Collided THEN 1 ELSE mv.len)

C19_Step ==
    /\ pc = "keys" => UNCHANGED <<positions, direction, length, last, apple>>
    /\ pc = "update" => UNCHANGED <<positions, length, last, apple>>
    /\ pc = "move" /\ (\A j \in 2..Len(positions) : positions[j] # Ahead) =>
         UNCHANGED <<direction, next_direction, length, apple>>
    /\ pc = "eat" /\ positions[1] # apple =>
         UNCHANGED <<positions, direction, next_direction, length, last, apple>>

C19_Frames == []C19_State /\ [][C19_Step]_vars

\* A tick of a grown snake that turned, did not collide and did not eat.
C19_Witness ==
    /\ pc = "draw" /\ ~Collided /\ positions[1] # apple0
    /\ mv.len >= 2 /\ length = mv.len /\ apple = apple0
    /\ direction # direction0

\* ----------------------------------------------------------------- C15
\* C15: when the eat step starts with the head on the apple and at least
\* one board cell off the body, relocation ends (fair sampling) with the
\* apple on a cell off the body and the tick reaches draw.
C15_RelocationEnds ==
    (pc = "eat" /\ positions[1] = apple /\ Elems(positions) # RandomPositions)
        ~> (pc = "draw" /\ apple \notin Elems(positions))

\* Relocation ended on the only cell the body left free.
C15_Witness ==
    /\ pc = "draw" /\ apple # apple0
    /\ Len(positions) = GRID_WIDTH * GRID_HEIGHT - 1
    /\ RandomPositions \ Elems(positions) = {apple}

\* ----------------------------------------------------------------- C13
\* C13: on the 32 x 24 board the snake starts as the single cell (16,12),
\* direction RIGHT, length 1; without input the head is on (19,12) after 3
\* ticks, and the body is that single cell with length 1 when no tick fed
\* it (a tick whose head misses the apple feeds nothing); when the apple is
\* on (19,12) as tick 3 moves a one-cell snake, tick 3 ends with length 2,
\* the body still the single cell (19,12) and last = (18,12); the body has
\* 2 cells only after the move of tick 4.
Cell(c, r) == <<c * GRID_SIZE, r * GRID_SIZE>>

C13_Trace ==
    /\ GRID_WIDTH = 32 /\ GRID_HEIGHT = 24
    /\ ticks = 0 /\ pc = "keys" =>
         positions = <<Cell(16, 12)>> /\ direction = RIGHT /\ length = 1 /\ last = None
    /\ pc = "draw" /\ positions[1] # apple0 => length = mv.len /\ apple = apple0
    /\ length = 1 => Len(positions) = 1
    /\ ticks = 3 /\ pc = "keys" =>
         /\ positions[1] = Cell(19, 12)
         /\ length = 1 => positions = <<Cell(19, 12)>>
    /\ ticks = 2 /\ pc = "draw" /\ apple0 = Cell(19, 12) /\ mv.len = 1 =>
         /\ length = 2
         /\ positions = <<Cell(19, 12)>>
         /\ last = Cell(18, 12)
         /\ apple # Cell(19, 12)
    /\ ticks = 3 /\ pc \in {"keys", "update", "move"} /\ length = 2 /\ Len(positions) = 1 =>
         positions = <<Cell(19, 12)>> /\ last = Cell(18, 12)
    /\ ticks = 3 /\ pc \in {"eat", "place", "draw"} /\ mv.n = 1 /\ mv.len = 2 =>
         positions = <<Cell(20, 12), Cell(19, 12)>>

\* Tick 3 of a one-cell snake ended on the apple at (19,12).
C13_Witness ==
    /\ ticks = 2 /\ pc = "draw" /\ apple0 = Cell(19, 12) /\ mv.len = 1
    /\ length = 2 /\ positions = <<Cell(19, 12)>> /\ last = Cell(18, 12)

====
